---- MODULE Spec2Model ----
(***************************************************************************)
(* Model of the LifeFlight analytics backend:                              *)
(*   backend/utils/event_impact_1_4.py  (event catalog, monthly            *)
(*       aggregation, pre/post comparison, cumulative impact, the whole    *)
(*       event-impact analysis)                                            *)
(*   backend/utils/weather_risk_2_4.py  (extreme-weather flag, weather     *)
(*       quantile stratification, mission distribution by bucket)          *)
(*                                                                         *)
(* The functions are pure transforms over tables.  Every specification     *)
(* draws the inputs of one group of functions in its initial states and    *)
(* has one action per function, which stores the function's result.        *)
(*                                                                         *)
(* Representation.                                                         *)
(*   Timestamp  [days |-> n], n = days since 2023-01-01; NaT is the        *)
(*              missing timestamp.                                         *)
(*   Period     month index p (freq='M'); p = 0 is 2023-01.                *)
(*   float      exact rational [n |-> num, d |-> den] in lowest terms,     *)
(*              d > 0; NaN is 0/0.                                         *)
(*   str / NaN  object columns hold strings; NULL is the missing value.    *)
(***************************************************************************)
EXTENDS Integers, Sequences, FiniteSets, TLC

VARIABLES
    pc,               \* which functions have run
    df,               \* aggregate_monthly_data: operational table
    location_filter,  \* aggregate_monthly_data: filter dictionary
    monthly_agg,      \* aggregate_monthly_data: returned table
    closures,         \* hospital_facility_closures.csv rows
    events,           \* get_hospital_closure_events: returned table
    events_list,      \* get_all_events: returned list
    monthly_data,     \* calculate_*: monthly series
    event_date,       \* calculate_*: event date
    window_months,    \* calculate_*: window
    SCIPY_AVAILABLE,  \* module flag set at import
    pre_post,         \* calculate_pre_post_comparison: returned dictionary
    cumulative_data,  \* calculate_cumulative_impact: returned list
    merged_df,        \* stratify_by_weather_quantiles: operational table
    weather_freq,     \* stratify_by_weather_quantiles: monthly frequency table
    quantiles,        \* stratify_by_weather_quantiles: quantile thresholds
    stratified,       \* stratify_by_weather_quantiles: returned table
    weather_df,       \* define_extreme_weather_days: weather table
    weather_columns,  \* define_extreme_weather_days: columns of the table
    method,           \* define_extreme_weather_days: method
    flagged,          \* define_extreme_weather_days: outcome
    labelled_df,      \* get_weather_risk_analysis: stratified operational table
    aggregation_level, \* get_weather_risk_analysis: aggregation level
    risk_analysis,    \* get_weather_risk_analysis: returned dictionary
    event_id,         \* get_event_impact_analysis: event identifier
    location_level,   \* get_event_impact_analysis: location level
    location_value,   \* get_event_impact_analysis: location value
    impact_analysis   \* get_event_impact_analysis: outcome

vars == <<pc, df, location_filter, monthly_agg, closures, events, events_list,
          monthly_data, event_date, window_months, SCIPY_AVAILABLE, pre_post,
          cumulative_data, merged_df, weather_freq, quantiles, stratified,
          weather_df, weather_columns, method, flagged, labelled_df,
          aggregation_level, risk_analysis, event_id, location_level,
          location_value, impact_analysis>>

aggVars == <<df, location_filter, monthly_agg>>
evVars == <<closures, events, events_list>>
impVars == <<monthly_data, event_date, window_months, SCIPY_AVAILABLE,
             pre_post, cumulative_data>>
strVars == <<merged_df, weather_freq, quantiles, stratified>>
wxVars == <<weather_df, weather_columns, method, flagged>>
distVars == <<labelled_df, aggregation_level, risk_analysis>>
anVars == <<event_id, location_level, location_value, impact_analysis>>

(***************************************************************************)
(* Bounds of the model.                                                    *)
(***************************************************************************)
MaxRecords == 3     \* rows of the operational table
MaxMonthIx == 1     \* operational records fall in months 0..MaxMonthIx

NotRun == <<"not run">>

(***************************************************************************)
(* Generic helpers.                                                        *)
(***************************************************************************)
Range(s) == {s[i] : i \in 1..Len(s)}

SeqsUpTo(S, n) == UNION {[1..k -> S] : k \in 0..n}

SetMin(S) == CHOOSE x \in S : \A y \in S : x <= y

RECURSIVE SortedSeqOf(_)
SortedSeqOf(S) ==
    IF S = {} THEN <<>>
    ELSE LET m == SetMin(S) IN <<m>> \o SortedSeqOf(S \ {m})

Abs(x) == IF x < 0 THEN -x ELSE x

RECURSIVE GCD(_, _)
GCD(a, b) == IF b = 0 THEN a ELSE GCD(b, a % b)

(***************************************************************************)
(* float arithmetic, exact.                                                *)
(***************************************************************************)
NaN == [n |-> 0, d |-> 0]
IsNaN(x) == x.d = 0

Q(a, b) ==
    IF b = 0 THEN NaN
    ELSE LET g == GCD(Abs(a), Abs(b))
             s == IF b < 0 THEN -1 ELSE 1
         IN [n |-> (s * a) \div g, d |-> (s * b) \div g]

QInt(a) == [n |-> a, d |-> 1]
Zero == QInt(0)

QAdd(x, y) == IF IsNaN(x) \/ IsNaN(y) THEN NaN
              ELSE Q(x.n * y.d + y.n * x.d, x.d * y.d)
QSub(x, y) == IF IsNaN(x) \/ IsNaN(y) THEN NaN
              ELSE Q(x.n * y.d - y.n * x.d, x.d * y.d)
QMul(x, y) == IF IsNaN(x) \/ IsNaN(y) THEN NaN
              ELSE Q(x.n * y.n, x.d * y.d)
\* x / y on numpy floats: a zero divisor gives no finite number
QDiv(x, y) == IF IsNaN(x) \/ IsNaN(y) \/ y.n = 0 THEN NaN
              ELSE Q(x.n * y.d, x.d * y.n)
\* comparisons with NaN are False
QLt(x, y) == ~IsNaN(x) /\ ~IsNaN(y) /\ x.n * y.d < y.n * x.d
QLe(x, y) == ~IsNaN(x) /\ ~IsNaN(y) /\ x.n * y.d <= y.n * x.d
QGt(x, y) == QLt(y, x)

(***************************************************************************)
(* Calendar: pandas Timestamp / Period(freq='M').                          *)
(***************************************************************************)
NaT == [nat |-> TRUE]
Ts(n) == [days |-> n]
notna(t) == t # NaT

YearOf(p) == 2023 + (p \div 12)
MonthOf(p) == (p % 12) + 1

IsLeap(y) == (y % 4 = 0 /\ y % 100 # 0) \/ y % 400 = 0

DaysInMonth(y, m) ==
    IF m = 2 THEN (IF IsLeap(y) THEN 29 ELSE 28)
    ELSE IF m \in {4, 6, 9, 11} THEN 30 ELSE 31

\* days from 2023-01-01 to the first day of month p
RECURSIVE DaysToMonth(_)
DaysToMonth(p) ==
    IF p = 0 THEN 0
    ELSE IF p > 0 THEN DaysToMonth(p - 1) + DaysInMonth(YearOf(p - 1), MonthOf(p - 1))
    ELSE DaysToMonth(p + 1) - DaysInMonth(YearOf(p), MonthOf(p))

\* the calendar of the years 2021..2026, computed once
MonthStarts == [p \in -24..48 |-> DaysToMonth(p)]

\* Period.to_timestamp(): first day of the month, as days since 2023-01-01
MonthStart(p) == MonthStarts[p]

to_timestamp(p) == Ts(MonthStart(p))

\* Timestamp.to_period('M') / pd.Period(ts, freq='M')
RECURSIVE PeriodFrom(_, _)
PeriodFrom(n, p) ==
    IF n < MonthStart(p) THEN PeriodFrom(n, p - 1)
    ELSE IF n >= MonthStart(p + 1) THEN PeriodFrom(n, p + 1)
    ELSE p

to_period(t) == PeriodFrom(t.days, 0)

\* pd.to_datetime(raw, errors='coerce') of a "Y-M-D" text: NaT when the
\* text is no calendar date
to_datetime(raw) ==
    IF /\ raw.m \in 1..12
       /\ raw.d \in 1..DaysInMonth(raw.y, raw.m)
    THEN Ts(MonthStart((raw.y - 2023) * 12 + raw.m - 1) + raw.d - 1)
    ELSE NaT

(***************************************************************************)
(* Strings of object columns.                                              *)
(***************************************************************************)
NULL == "<NaN>"

\* str.upper(); Series.str.upper() leaves a missing value missing
upper(s) ==
    CASE s = "Aroostook" -> "AROOSTOOK"
      [] s = "aroostook" -> "AROOSTOOK"
      [] s = "Penobscot" -> "PENOBSCOT"
      [] s = "Caribou" -> "CARIBOU"
      [] s = "caribou" -> "CARIBOU"
      [] s = "Bangor" -> "BANGOR"
      [] s = "bangor" -> "BANGOR"
      [] OTHER -> s

(***************************************************************************)
(* aggregate_monthly_data (event_impact_1_4.py:67-112)                     *)
(***************************************************************************)
\* lines 83-88: parse tdate, drop NaT rows, derive the period columns
WithDateColumns(table) ==
    LET parsed == [i \in 1..Len(table) |->
                     [table[i] EXCEPT !.tdate = to_datetime(table[i].tdate)]]
        kept == SelectSeq(parsed, LAMBDA r : notna(r.tdate))
    IN [i \in 1..Len(kept) |->
          [tdate |-> kept[i].tdate,
           county |-> kept[i].county,
           city |-> kept[i].city,
           incident |-> kept[i].incident,
           year |-> YearOf(to_period(kept[i].tdate)),
           month |-> MonthOf(to_period(kept[i].tdate)),
           year_month |-> to_period(kept[i].tdate),
           date |-> to_timestamp(to_period(kept[i].tdate))]]

\* the filter of lines 91-97 without the two upper() calls of each key
ApplyLocationFilter_CaseSensitive(table, filter) ==
    LET byCounty ==
            IF "county" \in DOMAIN filter
            THEN SelectSeq(table, LAMBDA r : r.county = filter["county"])
            ELSE table
    IN IF "city" \in DOMAIN filter
       THEN SelectSeq(byCounty, LAMBDA r : r.city = filter["city"])
       ELSE byCounty

\* lines 91-97: 'PU City.1' is the pickup county, 'PU City' the pickup city
ApplyLocationFilter(table, filter) ==
    LET byCounty ==
            IF "county" \in DOMAIN filter
            THEN SelectSeq(table,
                     LAMBDA r : upper(r.county) = upper(filter["county"]))
            ELSE table
        byCity ==
            IF "city" \in DOMAIN filter
            THEN SelectSeq(byCounty,
                     LAMBDA r : upper(r.city) = upper(filter["city"]))
            ELSE byCounty
    IN IF DOMAIN filter # {} THEN byCity ELSE table

\* slip: counts the rows of the whole table, not of the group
CountIncidents_WholeTable(table, p) ==
    Cardinality({i \in 1..Len(table) : table[i].incident # NULL})

\* 'count' aggregation: number of non-missing values of the column
CountIncidents(table, p) ==
    Cardinality({i \in 1..Len(table) :
                    table[i].year_month = p /\ table[i].incident # NULL})

\* lines 100-107: groupby('year_month') yields one row per key present, in
\* ascending key order
GroupByYearMonth(table) ==
    LET keys == SortedSeqOf({table[i].year_month : i \in 1..Len(table)})
    IN [k \in 1..Len(keys) |->
          [date |-> to_timestamp(keys[k]),
           year |-> YearOf(keys[k]),
           month |-> MonthOf(keys[k]),
           year_month |-> keys[k],
           mission_count |-> CountIncidents(table, keys[k])]]

\* sort_values('date'): stable ascending sort
RECURSIVE InsertByDate(_, _)
InsertByDate(sorted, r) ==
    IF sorted = <<>> THEN <<r>>
    ELSE IF r.date.days < Head(sorted).date.days THEN <<r>> \o sorted
    ELSE <<Head(sorted)>> \o InsertByDate(Tail(sorted), r)

\* slip: sort_values('date', ascending=False)
RECURSIVE SortValuesByDate_Descending(_)
SortValuesByDate_Descending(table) ==
    IF table = <<>> THEN <<>>
    ELSE LET rest == SortValuesByDate_Descending(Tail(table))
             later == SelectSeq(rest, LAMBDA r : r.date.days > Head(table).date.days)
             earlier == SelectSeq(rest, LAMBDA r : r.date.days <= Head(table).date.days)
         IN later \o <<Head(table)>> \o earlier

RECURSIVE SortValuesByDate(_)
SortValuesByDate(table) ==
    IF table = <<>> THEN <<>>
    ELSE InsertByDate(SortValuesByDate(SubSeq(table, 1, Len(table) - 1)),
                      table[Len(table)])

aggregate_monthly_data(table, filter) ==
    SortValuesByDate(GroupByYearMonth(
        ApplyLocationFilter(WithDateColumns(table), filter)))

(***************************************************************************)
(* Specification of the monthly aggregator: the initial states draw an     *)
(* operational table and a location filter.                                *)
(***************************************************************************)
\* tdate texts: the 1st and the 30th of each month (no February 30th exists)
RawDates ==
    {[y |-> YearOf(p), m |-> MonthOf(p), d |-> dd] :
        p \in 0..MaxMonthIx, dd \in {1, 30}}

Places ==
    {[county |-> "Aroostook", city |-> "Caribou"],
     [county |-> "aroostook", city |-> "Bangor"],
     [county |-> "Penobscot", city |-> NULL]}

\* every record carries its own incident number
OperationalTables ==
    {[i \in 1..Len(s) |->
        [tdate |-> s[i][1], county |-> s[i][2].county, city |-> s[i][2].city,
         incident |-> ToString(i)]] :
        s \in SeqsUpTo(RawDates \X Places, MaxRecords)}

NoFilter == [k \in {} |-> NULL]

LocationFilters ==
    {NoFilter,
     [k \in {"county"} |-> "AROOSTOOK"],
     [k \in {"city"} |-> "Caribou"],
     [k \in {"county", "city"} |->
        IF k = "county" THEN "Aroostook" ELSE "bangor"]}

IdleAgg == /\ df = <<>> /\ location_filter = NoFilter /\ monthly_agg = NotRun
IdleEvents == /\ closures = <<>> /\ events = NotRun /\ events_list = NotRun
IdleImpact ==
    /\ monthly_data = <<>> /\ event_date = Ts(0) /\ window_months = 0
    /\ SCIPY_AVAILABLE = TRUE /\ pre_post = NotRun /\ cumulative_data = NotRun
IdleStrat ==
    /\ merged_df = <<>> /\ weather_freq = <<>> /\ quantiles = <<>>
    /\ stratified = NotRun
IdleWeather ==
    /\ weather_df = <<>> /\ weather_columns = {} /\ method = ""
    /\ flagged = NotRun
IdleDist ==
    /\ labelled_df = <<>> /\ aggregation_level = "" /\ risk_analysis = NotRun
IdleAnalysis ==
    /\ event_id = <<>> /\ location_level = "" /\ location_value = NULL
    /\ impact_analysis = NotRun

InitAgg ==
    /\ pc = "input"
    /\ df \in OperationalTables
    /\ location_filter \in LocationFilters
    /\ monthly_agg = NotRun
    /\ IdleEvents /\ IdleImpact /\ IdleStrat
    /\ IdleWeather /\ IdleDist /\ IdleAnalysis

AggregateMonthlyData ==
    /\ pc = "input"
    /\ monthly_agg' = aggregate_monthly_data(df, location_filter)
    /\ pc' = "aggregated"
    /\ UNCHANGED <<df, location_filter, evVars, impVars, strVars,
                   wxVars, distVars, anVars>>

NextAgg == AggregateMonthlyData

SpecAgg == InitAgg /\ [][NextAgg]_vars

(***************************************************************************)
(* Claims about aggregate_monthly_data.                                    *)
(***************************************************************************)
\* the record's tdate text is a calendar date of year y, month m
ParseableIn(r, y, m) ==
    /\ r.tdate.y = y /\ r.tdate.m = m
    /\ r.tdate.d \in 1..DaysInMonth(y, m)

Parseable(r) == r.tdate.m \in 1..12 /\ ParseableIn(r, r.tdate.y, r.tdate.m)

\* the record passes every constraint the filter gives, ignoring case
PassesFilter(r, filter) ==
    /\ "county" \in DOMAIN filter => upper(r.county) = upper(filter["county"])
    /\ "city" \in DOMAIN filter => upper(r.city) = upper(filter["city"])

MatchingIn(y, m) ==
    {i \in 1..Len(df) :
        ParseableIn(df[i], y, m) /\ PassesFilter(df[i], location_filter)}

RowsOf(y, m) ==
    {k \in 1..Len(monthly_agg) :
        monthly_agg[k].year = y /\ monthly_agg[k].month = m}

\* C1: the rows returned by aggregate_monthly_data are strictly ascending by
\* period start date and no two rows share the same (year, month) period
C1_SortedNoDuplicates ==
    pc = "aggregated" =>
        \A i, j \in 1..Len(monthly_agg) :
            i < j =>
                /\ monthly_agg[i].date.days < monthly_agg[j].date.days
                /\ <<monthly_agg[i].year, monthly_agg[i].month>>
                       # <<monthly_agg[j].year, monthly_agg[j].month>>

C1_Witness ==
    /\ pc = "aggregated"
    /\ Len(monthly_agg) >= 2
    /\ \E i, j \in 1..Len(df) :
          /\ i < j /\ Parseable(df[i]) /\ Parseable(df[j])
          /\ df[i].tdate.y = df[j].tdate.y /\ df[i].tdate.m > df[j].tdate.m

Spellings(s) ==
    CASE s \in {"Aroostook", "aroostook", "AROOSTOOK"} ->
             {"Aroostook", "aroostook", "AROOSTOOK"}
      [] s \in {"Penobscot", "PENOBSCOT"} -> {"Penobscot", "PENOBSCOT"}
      [] s \in {"Caribou", "caribou", "CARIBOU"} -> {"Caribou", "caribou", "CARIBOU"}
      [] s \in {"Bangor", "bangor", "BANGOR"} -> {"Bangor", "bangor", "BANGOR"}
      [] OTHER -> {}

\* a present value that is the wanted name up to the case of its letters
EqualIgnoringCase(value, wanted) == value # NULL /\ value \in Spellings(wanted)

\* the records the location filter is to keep
KeptByLocation(r) ==
    CASE DOMAIN location_filter = {"county"} ->
             EqualIgnoringCase(r.county, location_filter["county"])
      [] DOMAIN location_filter = {"city"} ->
             EqualIgnoringCase(r.city, location_filter["city"])
      [] DOMAIN location_filter = {"county", "city"} ->
             /\ EqualIgnoringCase(r.county, location_filter["county"])
             /\ EqualIgnoringCase(r.city, location_filter["city"])
      [] OTHER -> TRUE

\* C16: the records counted in a month are exactly its records with a
\* parseable timestamp whose pickup county equals the 'county' value ignoring
\* case (filter with only 'county'), whose pickup city equals the 'city' value
\* ignoring case (only 'city'), for which both hold (both keys), or all of
\* them (no filter)
C16_LocationFilterExactIgnoringCase ==
    pc = "aggregated" =>
        \A y \in 2022..2024, m \in 1..12 :
            LET kept == {i \in 1..Len(df) :
                            ParseableIn(df[i], y, m) /\ KeptByLocation(df[i])}
                rows == RowsOf(y, m)
            IN IF kept = {}
               THEN rows = {}
               ELSE \E k \in rows :
                       /\ rows = {k}
                       /\ monthly_agg[k].mission_count = Cardinality(kept)

\* with both keys, a record matching both in another case is counted and a
\* record of the county in another city is dropped
C16_Witness ==
    /\ pc = "aggregated"
    /\ DOMAIN location_filter = {"county", "city"}
    /\ Len(monthly_agg) = 1
    /\ monthly_agg[1].mission_count = 1
    /\ \E i, j \in 1..Len(df) :
          /\ Parseable(df[i]) /\ Parseable(df[j])
          /\ df[i].county = "aroostook" /\ df[i].city = "Bangor"
          /\ df[j].county = "Aroostook" /\ df[j].city = "Caribou"

(***************************************************************************)
(* get_hospital_closure_events (event_impact_1_4.py:27-64) and             *)
(* get_all_events (event_impact_1_4.py:383-405)                            *)
(***************************************************************************)
EventColumns ==
    {"event_id", "hospital_name", "county", "facility_type", "closure_year",
     "closure_month", "reason", "status"}

Returned(columns, rows) == [raised |-> "", columns |-> columns, rows |-> rows]
Raised(error) == [raised |-> error, columns |-> {}, rows |-> <<>>]

\* slip: the status test is left out
IsValidClosure_AnyStatus(row) ==
    /\ ~IsNaN(row.closure_year)
    /\ row.hospital_name # NULL

\* lines 43-47
IsValidClosure(row) ==
    /\ ~IsNaN(row.closure_year)
    /\ row.status \in {"Closed", "Sold"}
    /\ row.hospital_name # NULL

\* lines 53-55: closure_date is the list of its '-'-separated parts, or NaT
ClosureMonth(closure_date) ==
    IF notna(closure_date) /\ Len(closure_date.parts) > 1
    THEN closure_date.parts[2]
    ELSE 6

\* lines 49-64: the rows kept, under their index in the file
ValidEvents(rows) ==
    LET idx == SortedSeqOf({i \in 1..Len(rows) : IsValidClosure(rows[i])})
    IN [k \in 1..Len(idx) |->
          LET row == rows[idx[k]]
              year == row.closure_year.n \div row.closure_year.d
          IN [index |-> idx[k],
              event_id |-> <<row.hospital_name, " (", row.county, ", ", year, ")">>,
              hospital_name |-> row.hospital_name,
              county |-> row.county,
              facility_type |-> row.facility_type,
              closure_year |-> year,
              closure_month |-> ClosureMonth(row.closure_date),
              reason |-> row.reason,
              status |-> row.status]]

\* The outcomes of get_hospital_closure_events.  Without a file it returns
\* pd.DataFrame(), a table without columns.  With no valid row, line 58
\* assigns the result of DataFrame.apply(axis=1) on an empty frame, itself an
\* empty frame of many columns: pandas versions differ on whether that
\* assignment is accepted or raises ValueError.
HospitalClosureEvents(file) ==
    IF ~file.exists THEN {Returned({}, <<>>)}
    ELSE IF ValidEvents(file.rows) = <<>>
         THEN {Returned(EventColumns, <<>>), Raised("ValueError")}
         ELSE {Returned(EventColumns, ValidEvents(file.rows))}

\* list.sort(key=closure_year, reverse=True): stable, most recent first
RECURSIVE InsertByYearDesc(_, _)
InsertByYearDesc(sorted, e) ==
    IF sorted = <<>> THEN <<e>>
    ELSE IF e.closure_year > Head(sorted).closure_year THEN <<e>> \o sorted
    ELSE <<Head(sorted)>> \o InsertByYearDesc(Tail(sorted), e)

RECURSIVE SortByYearDesc(_)
SortByYearDesc(list) ==
    IF list = <<>> THEN <<>>
    ELSE InsertByYearDesc(SortByYearDesc(SubSeq(list, 1, Len(list) - 1)),
                          list[Len(list)])

\* lines 392-405
AllEvents(events_df) ==
    SortByYearDesc(
        [k \in 1..Len(events_df.rows) |->
            LET row == events_df.rows[k]
            IN [event_id |-> row.event_id,
                display_name |-> <<row.hospital_name, " - ", row.county, " (",
                                   row.closure_year, ")">>,
                county |-> row.county,
                facility_type |-> row.facility_type,
                closure_year |-> row.closure_year]])

(***************************************************************************)
(* Specification of the event catalog: the initial states draw the         *)
(* closures file.                                                          *)
(***************************************************************************)
MaxClosures == 2    \* rows of the closures file

ClosureRows ==
    [hospital_name : {"Calais Regional", NULL},
     county : {"Washington"},
     facility_type : {"Hospital"},
     closure_year : {QInt(2019), QInt(2021), NaN},
     closure_date : {NaT, [parts |-> <<2019>>], [parts |-> <<2019, 3, 15>>]},
     status : {"Closed", "Sold", "Open"},
     reason : {"Financial"}]

NoClosures == [exists |-> FALSE, rows |-> <<>>]

ClosureFiles ==
    {NoClosures} \cup
    {[exists |-> TRUE, rows |-> r] : r \in SeqsUpTo(ClosureRows, MaxClosures)}

InitEvents ==
    /\ pc = "input"
    /\ closures \in ClosureFiles
    /\ events = NotRun
    /\ events_list = NotRun
    /\ IdleAgg /\ IdleImpact /\ IdleStrat
    /\ IdleWeather /\ IdleDist /\ IdleAnalysis

GetHospitalClosureEvents ==
    /\ pc = "input"
    /\ events' \in HospitalClosureEvents(closures)
    /\ pc' = "loaded"
    /\ UNCHANGED <<closures, events_list, aggVars, impVars, strVars,
                   wxVars, distVars, anVars>>

\* get_all_events loads the catalog itself; an exception of the loader
\* propagates
GetAllEvents ==
    /\ pc = "input"
    /\ \E events_df \in HospitalClosureEvents(closures) :
          /\ events' = events_df
          /\ events_list' = IF events_df.raised # "" THEN events_df
                            ELSE Returned({}, AllEvents(events_df))
    /\ pc' = "listed"
    /\ UNCHANGED <<closures, aggVars, impVars, strVars,
                   wxVars, distVars, anVars>>

NextEvents == GetHospitalClosureEvents \/ GetAllEvents

SpecEvents == InitEvents /\ [][NextEvents]_vars

(***************************************************************************)
(* Claims about the event catalog.                                         *)
(***************************************************************************)
\* the input row meets the three conditions of a valid closure event
MeetsAll(row) ==
    /\ row.status = "Closed" \/ row.status = "Sold"
    /\ row.closure_year # NaN
    /\ row.hospital_name # NULL

\* C3: every event emitted by get_hospital_closure_events has status Closed
\* or Sold, a closure year and a hospital name, and every input row failing
\* one of the three is absent from the output and from get_all_events
C3_OnlyValidClosuresEmitted ==
    pc \in {"loaded", "listed"} =>
        /\ \A k \in 1..Len(events.rows) :
              LET e == events.rows[k]
              IN /\ e.status \in {"Closed", "Sold"}
                 /\ e.closure_year \in Int
                 /\ e.hospital_name # NULL
                 /\ e.index \in 1..Len(closures.rows)
                 /\ MeetsAll(closures.rows[e.index])
                 /\ \A j \in 1..Len(events.rows) :
                       events.rows[j].index = e.index => j = k
        /\ pc = "listed" =>
              /\ Len(events_list.rows) <=
                     Cardinality({i \in 1..Len(closures.rows) :
                                     MeetsAll(closures.rows[i])})
              /\ \A k \in 1..Len(events_list.rows) :
                    \E i \in 1..Len(closures.rows) :
                        /\ MeetsAll(closures.rows[i])
                        /\ events_list.rows[k].event_id[1] =
                               closures.rows[i].hospital_name
                        /\ QInt(events_list.rows[k].closure_year) =
                               closures.rows[i].closure_year

C3_Witness ==
    /\ pc = "listed"
    /\ Len(events_list.rows) = 1
    /\ Len(closures.rows) = 2
    /\ \E i \in 1..2 : closures.rows[i].status = "Open"
                       /\ closures.rows[i].hospital_name # NULL
                       /\ closures.rows[i].closure_year # NaN

(***************************************************************************)
(* calculate_pre_post_comparison (event_impact_1_4.py:115-230)             *)
(*                                                                         *)
(* A standard deviation is the square root of a rational: Sqrt(q) stands   *)
(* for the square root of q, and Affine(c, k, s) for c + k * s.            *)
(***************************************************************************)
Sqrt(q) == [sqrt |-> q]
Square(s) == s.sqrt
Affine(c, k, s) ==
    IF IsNaN(c) \/ IsNaN(k) \/ IsNaN(s.sqrt) THEN [c |-> NaN, k |-> NaN, sqrt |-> NaN]
    ELSE [c |-> c, k |-> k, sqrt |-> s.sqrt]

Counts(table) == [i \in 1..Len(table) |-> table[i].mission_count]

RECURSIVE SumSeq(_)
SumSeq(xs) == IF xs = <<>> THEN 0 ELSE Head(xs) + SumSeq(Tail(xs))

RECURSIVE SumSquares(_)
SumSquares(xs) == IF xs = <<>> THEN 0 ELSE Head(xs) * Head(xs) + SumSquares(Tail(xs))

\* Series.mean()
Mean(xs) == Q(SumSeq(xs), Len(xs))

\* the unbiased variance, sum((x - mean)^2) / (n - 1): 0/0 for one value
Variance(xs) ==
    Q(Len(xs) * SumSquares(xs) - SumSeq(xs) * SumSeq(xs),
      Len(xs) * (Len(xs) - 1))

\* Series.std(): sample standard deviation (ddof=1), NaN for one value
Std(xs) == Sqrt(Variance(xs))

\* Timestamp.isoformat(): the text "Y-M-DT00:00:00", as its fields
isoformat(t) ==
    LET p == to_period(t)
    IN [y |-> YearOf(p), m |-> MonthOf(p), d |-> t.days - MonthStart(p) + 1]

\* lines 194-210
PeriodData(table, label) ==
    [i \in 1..Len(table) |->
        [date |-> isoformat(table[i].date),
         mission_count |-> table[i].mission_count,
         period |-> label]]

\* stats.t.ppf(0.975, dof), to three decimals
TPpf975(dof) ==
    CASE dof = 1 -> Q(12706, 1000)
      [] dof = 2 -> Q(4303, 1000)
      [] dof = 3 -> Q(3182, 1000)
      [] dof = 4 -> Q(2776, 1000)
      [] dof = 5 -> Q(2571, 1000)
      [] OTHER -> Q(2447, 1000)

\* stats.ttest_ind(a, b)[1]: the two-sided p-value of the pooled-variance
\* statistic t with len(a) + len(b) - 2 degrees of freedom.  It is a function
\* of t^2 and the degrees of freedom, which stand for it here; with zero
\* pooled variance t is 0/0 (p is NaN) or infinite (p is 0).
TTestIndPValue(a, b) ==
    LET dof == Len(a) + Len(b) - 2
        pooled == QDiv(QAdd(QMul(QInt(Len(a) - 1), Variance(a)),
                            QMul(QInt(Len(b) - 1), Variance(b))),
                       QInt(dof))
        diff == QSub(Mean(a), Mean(b))
        denom == QMul(pooled, Q(Len(a) + Len(b), Len(a) * Len(b)))
    IN IF denom = Zero
       THEN (IF diff = Zero THEN NaN ELSE Zero)
       ELSE [t_squared |-> QDiv(QMul(diff, diff), denom), dof |-> dof]

Max(a, b) == IF a >= b THEN a ELSE b
Min(a, b) == IF a <= b THEN a ELSE b

\* lines 131-141: the rows inside the window
WindowData(table, ev, w) ==
    LET event_period == to_period(ev)
        start_date == to_timestamp(event_period - w)
        end_date == to_timestamp(event_period + w)
    IN SelectSeq(table, LAMBDA r : /\ r.date.days >= start_date.days
                                   /\ r.date.days <= end_date.days)

\* slip: date <= event_date
PrePeriod_Inclusive(window_data, ev) ==
    SelectSeq(window_data, LAMBDA r : r.date.days <= ev.days)

\* lines 157-158
PrePeriod(window_data, ev) ==
    SelectSeq(window_data, LAMBDA r : r.date.days < ev.days)
PostPeriod(window_data, ev) ==
    SelectSeq(window_data, LAMBDA r : r.date.days >= ev.days)

\* lines 161-164
PeriodMean(period) == IF Len(period) > 0 THEN Mean(Counts(period)) ELSE Zero
PeriodStd(period) == IF Len(period) > 0 THEN Std(Counts(period)) ELSE Sqrt(Zero)

\* slip: no guard on pre_mean
PercentageChange_Unguarded(difference, pre_mean) ==
    QMul(QDiv(difference, pre_mean), QInt(100))

\* line 167
PercentageChange(difference, pre_mean) ==
    IF QGt(pre_mean, Zero)
    THEN QMul(QDiv(difference, pre_mean), QInt(100))
    ELSE Zero

\* line 173
UsesTTest(scipy, pre_n, post_n) == scipy /\ pre_n > 1 /\ post_n > 1

\* lines 181 and 187
SeDiff(pre_std, post_std, pre_n, post_n) ==
    Sqrt(QAdd(QDiv(Square(pre_std), QInt(pre_n)),
              QDiv(Square(post_std), QInt(post_n))))

calculate_pre_post_comparison(table, ev, w, scipy) ==
    LET window_data == WindowData(table, ev, w)
        pre_period == PrePeriod(window_data, ev)
        post_period == PostPeriod(window_data, ev)
        pre_mean == PeriodMean(pre_period)
        post_mean == PeriodMean(post_period)
        pre_std == PeriodStd(pre_period)
        post_std == PeriodStd(post_period)
        difference == QSub(post_mean, pre_mean)
        percentage_change == PercentageChange(difference, pre_mean)
        pre_n == Len(pre_period)
        post_n == Len(post_period)
        ttest == UsesTTest(scipy, pre_n, post_n)
        se_diff == IF ttest
                   THEN SeDiff(pre_std, post_std, pre_n, post_n)
                   ELSE SeDiff(pre_std, post_std, Max(pre_n, 1), Max(post_n, 1))
        t_critical == IF ttest THEN TPpf975(Min(pre_n, post_n) - 1)
                      ELSE Q(196, 100)
        p_value == IF ttest
                   THEN TTestIndPValue(Counts(pre_period), Counts(post_period))
                   ELSE Q(5, 100)
    IN IF Len(window_data) = 0
       THEN [pre_period_mean |-> Zero,
             post_period_mean |-> Zero,
             difference |-> Zero,
             percentage_change |-> Zero,
             pre_period_std |-> Sqrt(Zero),
             post_period_std |-> Sqrt(Zero),
             pre_period_data |-> <<>>,
             post_period_data |-> <<>>,
             event_date |-> ev]
       ELSE [pre_period_mean |-> pre_mean,
             post_period_mean |-> post_mean,
             difference |-> difference,
             percentage_change |-> percentage_change,
             pre_period_std |-> pre_std,
             post_period_std |-> post_std,
             pre_period_n |-> pre_n,
             post_period_n |-> post_n,
             confidence_interval |->
                 [lower |-> Affine(difference, QSub(Zero, t_critical), se_diff),
                  upper |-> Affine(difference, t_critical, se_diff)],
             p_value |-> IF scipy THEN p_value ELSE Q(5, 100),
             pre_period_data |-> PeriodData(pre_period, "pre"),
             post_period_data |-> PeriodData(post_period, "post"),
             event_date |-> isoformat(ev),
             window_months |-> w]

(***************************************************************************)
(* calculate_cumulative_impact (event_impact_1_4.py:233-284)               *)
(***************************************************************************)
\* int(x / y) for y > 0: truncation towards zero
TruncDiv(x, y) == IF x >= 0 THEN x \div y ELSE -((-x) \div y)

\* lines 250-258
BaselineMean(table, ev, w) ==
    LET start_date == to_timestamp(to_period(ev) - w)
        pre_period == SelectSeq(table, LAMBDA r : /\ r.date.days >= start_date.days
                                                  /\ r.date.days < ev.days)
    IN IF Len(pre_period) > 0 THEN Mean(Counts(pre_period)) ELSE Zero

\* the post-event rows without the end of the window
CumulativePostPeriod_Unbounded(table, ev, w) ==
    SortValuesByDate(SelectSeq(table, LAMBDA r : r.date.days >= ev.days))

\* lines 261-265
CumulativePostPeriod(table, ev, w) ==
    LET end_date == to_timestamp(to_period(ev) + w)
    IN SortValuesByDate(
           SelectSeq(table, LAMBDA r : /\ r.date.days >= ev.days
                                       /\ r.date.days <= end_date.days))

\* slip: baseline_mean - mission_count
Excess_Reversed(mission_count, baseline_mean) ==
    QSub(baseline_mean, QInt(mission_count))

\* line 272
Excess(mission_count, baseline_mean) == QSub(QInt(mission_count), baseline_mean)

\* lines 268-282: the loop over the first k rows
RECURSIVE CumulativeLoop(_, _, _, _)
CumulativeLoop(post_period, k, baseline_mean, ev) ==
    IF k = 0 THEN [cumulative_excess |-> Zero, cumulative_data |-> <<>>]
    ELSE LET before == CumulativeLoop(post_period, k - 1, baseline_mean, ev)
             row == post_period[k]
             excess == Excess(row.mission_count, baseline_mean)
             cumulative_excess == QAdd(before.cumulative_excess, excess)
         IN [cumulative_excess |-> cumulative_excess,
             cumulative_data |->
                 Append(before.cumulative_data,
                        [date |-> isoformat(row.date),
                         mission_count |-> row.mission_count,
                         baseline |-> baseline_mean,
                         excess |-> excess,
                         cumulative_excess |-> cumulative_excess,
                         months_since_event |->
                             TruncDiv(row.date.days - ev.days, 30)])]

calculate_cumulative_impact(table, ev, w) ==
    LET post_period == CumulativePostPeriod(table, ev, w)
    IN CumulativeLoop(post_period, Len(post_period),
                      BaselineMean(table, ev, w), ev).cumulative_data

(***************************************************************************)
(* Specification of the event-impact analysis: the initial states draw a   *)
(* monthly series (as aggregate_monthly_data returns it: one row per       *)
(* month, ascending), an event date and a window; the two calculations run *)
(* in the order of get_event_impact_analysis (lines 336-339).              *)
(***************************************************************************)
MaxSeriesIx == 3    \* the series covers months 0..MaxSeriesIx
MaxWindow == 2      \* window_months is in 0..MaxWindow

MissionCounts == {0, 8, 10, 12}

MonthlyRow(p, count) ==
    [date |-> to_timestamp(p), year |-> YearOf(p), month |-> MonthOf(p),
     year_month |-> p, mission_count |-> count]

\* f[p] is the mission count of month p, or -1 for a month without row
SeriesOf(f) ==
    LET present == SortedSeqOf({p \in DOMAIN f : f[p] >= 0})
    IN [k \in 1..Len(present) |-> MonthlyRow(present[k], f[present[k]])]

MonthlySeries ==
    {SeriesOf(f) : f \in [0..MaxSeriesIx -> MissionCounts \cup {-1}]}

\* the 1st and the 15th of a month, up to the month after the series
EventDates ==
    {Ts(MonthStart(p) + d) : p \in 0..(MaxSeriesIx + 1), d \in {0, 14}}

InitImpact ==
    /\ pc = "input"
    /\ monthly_data \in MonthlySeries
    /\ event_date \in EventDates
    /\ window_months \in 0..MaxWindow
    /\ SCIPY_AVAILABLE \in BOOLEAN
    /\ pre_post = NotRun
    /\ cumulative_data = NotRun
    /\ IdleAgg /\ IdleEvents /\ IdleStrat
    /\ IdleWeather /\ IdleDist /\ IdleAnalysis

CalculatePrePostComparison ==
    /\ pc = "input"
    /\ pre_post' = calculate_pre_post_comparison(
                       monthly_data, event_date, window_months, SCIPY_AVAILABLE)
    /\ pc' = "compared"
    /\ UNCHANGED <<monthly_data, event_date, window_months, SCIPY_AVAILABLE,
                   cumulative_data, aggVars, evVars, strVars,
                   wxVars, distVars, anVars>>

CalculateCumulativeImpact ==
    /\ pc = "compared"
    /\ cumulative_data' = calculate_cumulative_impact(
                              monthly_data, event_date, window_months)
    /\ pc' = "accumulated"
    /\ UNCHANGED <<monthly_data, event_date, window_months, SCIPY_AVAILABLE,
                   pre_post, aggVars, evVars, strVars,
                   wxVars, distVars, anVars>>

NextImpact == CalculatePrePostComparison \/ CalculateCumulativeImpact

SpecImpact == InitImpact /\ [][NextImpact]_vars

(***************************************************************************)
(* Claims about calculate_pre_post_comparison.                             *)
(***************************************************************************)
Compared == pc \in {"compared", "accumulated"}

\* the rows whose month is at most window_months calendar months from the
\* event's
Windowed ==
    LET event_month == to_period(event_date)
    IN {i \in 1..Len(monthly_data) :
           /\ monthly_data[i].year_month >= event_month - window_months
           /\ monthly_data[i].year_month <= event_month + window_months}

\* the point list holds the row (its date is the first of the row's month)
Holds(list, r) ==
    \E k \in 1..Len(list) :
        /\ list[k].date = [y |-> r.year, m |-> r.month, d |-> 1]
        /\ list[k].mission_count = r.mission_count

ListCounts(list) == [k \in 1..Len(list) |-> list[k].mission_count]

Scenario ==
    /\ monthly_data = <<MonthlyRow(0, 10), MonthlyRow(1, 12), MonthlyRow(2, 8)>>
    /\ event_date = Ts(31)
    /\ window_months = 1

\* C4: the rows kept are exactly those within window_months calendar months
\* of the event month; a kept row is in pre iff date < event_date and in post
\* iff date >= event_date; pre_period_n + post_period_n is the number of
\* kept rows; the series (2023-01,10),(2023-02,12),(2023-03,8) with event
\* 2023-02-01 and window 1 gives pre = [10], post = [12, 8]
C4_WindowPartition ==
    Compared =>
        LET pre == pre_post.pre_period_data
            post == pre_post.post_period_data
            kept == Windowed
        IN /\ \A i \in 1..Len(monthly_data) :
                 LET r == monthly_data[i]
                     inPre == Holds(pre, r)
                     inPost == Holds(post, r)
                 IN /\ inPre <=> (i \in kept /\ r.date.days < event_date.days)
                    /\ inPost <=> (i \in kept /\ r.date.days >= event_date.days)
                    /\ ~(inPre /\ inPost)
           /\ Len(pre) + Len(post) = Cardinality(kept)
           /\ "pre_period_n" \in DOMAIN pre_post =>
                  /\ pre_post.pre_period_n = Len(pre)
                  /\ pre_post.post_period_n = Len(post)
                  /\ pre_post.pre_period_n + pre_post.post_period_n =
                         Cardinality(kept)
           /\ Scenario =>
                  /\ ListCounts(pre) = <<10>>
                  /\ ListCounts(post) = <<12, 8>>

C4_Witness == Compared /\ Scenario /\ pre_post.pre_period_n = 1

\* C5: with no row inside the window the result has every statistic (means,
\* stds, n, difference, percentage change, confidence interval bounds,
\* p-value) zeroed and both point lists empty
C5_EmptyWindowAllZero ==
    (Compared /\ Windowed = {}) =>
        /\ pre_post.pre_period_mean = Zero
        /\ pre_post.post_period_mean = Zero
        /\ pre_post.pre_period_std = Sqrt(Zero)
        /\ pre_post.post_period_std = Sqrt(Zero)
        /\ pre_post.difference = Zero
        /\ pre_post.percentage_change = Zero
        /\ pre_post.pre_period_data = <<>>
        /\ pre_post.post_period_data = <<>>
        /\ {"pre_period_n", "post_period_n", "confidence_interval", "p_value"}
               \subseteq DOMAIN pre_post
        /\ pre_post.pre_period_n = 0
        /\ pre_post.post_period_n = 0
        /\ pre_post.confidence_interval.lower = Affine(Zero, Zero, Sqrt(Zero))
        /\ pre_post.confidence_interval.upper = Affine(Zero, Zero, Sqrt(Zero))
        /\ pre_post.p_value = Zero

\* C6: the std of a partition with fewer than 2 points is 0.0 and the mean
\* of an empty partition is 0.0
C6_StdZeroBelowTwoPoints ==
    Compared =>
        /\ Len(pre_post.pre_period_data) < 2 =>
               pre_post.pre_period_std = Sqrt(Zero)
        /\ Len(pre_post.post_period_data) < 2 =>
               pre_post.post_period_std = Sqrt(Zero)
        /\ Len(pre_post.pre_period_data) = 0 => pre_post.pre_period_mean = Zero
        /\ Len(pre_post.post_period_data) = 0 => pre_post.post_period_mean = Zero

\* the means of the two point lists, as sums over lengths (1 for an empty list)
PreSum == SumSeq(ListCounts(pre_post.pre_period_data))
PostSum == SumSeq(ListCounts(pre_post.post_period_data))
PreLen == Max(Len(pre_post.pre_period_data), 1)
PostLen == Max(Len(pre_post.post_period_data), 1)

\* C7: for a non-empty window difference = post_mean - pre_mean and
\* percentage_change = difference / pre_mean * 100, but exactly 0.0 when
\* pre_mean is 0; nothing is divided by zero
C7_DifferenceAndPercentage ==
    (Compared /\ Windowed # {}) =>
        /\ pre_post.pre_period_mean.d > 0
        /\ pre_post.pre_period_mean.n * PreLen = pre_post.pre_period_mean.d * PreSum
        /\ pre_post.post_period_mean.d > 0
        /\ pre_post.post_period_mean.n * PostLen = pre_post.post_period_mean.d * PostSum
        /\ pre_post.difference.d > 0
        /\ pre_post.difference.n * (PreLen * PostLen) =
               pre_post.difference.d * (PostSum * PreLen - PreSum * PostLen)
        /\ pre_post.percentage_change.d > 0
        /\ IF PreSum = 0
           THEN pre_post.percentage_change = Zero
           ELSE pre_post.percentage_change.n * (PreSum * PostLen) =
                    pre_post.percentage_change.d * 100 *
                        (PostSum * PreLen - PreSum * PostLen)

C7_Witness ==
    /\ Compared /\ Windowed # {}
    /\ Len(pre_post.pre_period_data) = 2
    /\ PreSum = 0
    /\ PostSum > 0
    /\ pre_post.difference # Zero
    /\ pre_post.percentage_change = Zero

\* the value c + k * s is a finite number
Finite(v) == ~IsNaN(v.c)
\* c + k * s <= x and x <= c + k * s, for s >= 0
AtMost(v, x) == Finite(v) /\ QLe(v.c, x) /\ (v.sqrt = Zero \/ QLe(v.k, Zero) \/ QLt(v.c, x))
AtLeast(v, x) == Finite(v) /\ QLe(x, v.c) /\ (v.sqrt = Zero \/ QLe(Zero, v.k) \/ QLt(x, v.c))

\* C8: for a non-empty window with fewer than 2 points in a partition the
\* result is the approximation: critical value 1.96, p_value 0.05, finite
\* bounds with lower <= difference <= upper; the t-test is used only when
\* both partitions have at least 2 points
C8_ApproximationBelowTwoPoints ==
    (Compared /\ Windowed # {}) =>
        /\ (pre_post.pre_period_n < 2 \/ pre_post.post_period_n < 2) =>
               /\ pre_post.p_value = Q(5, 100)
               /\ Finite(pre_post.confidence_interval.lower)
               /\ Finite(pre_post.confidence_interval.upper)
               /\ pre_post.confidence_interval.lower.k = Q(-196, 100)
               /\ pre_post.confidence_interval.upper.k = Q(196, 100)
               /\ AtMost(pre_post.confidence_interval.lower, pre_post.difference)
               /\ AtLeast(pre_post.confidence_interval.upper, pre_post.difference)
        /\ pre_post.confidence_interval.upper.k \notin {Q(196, 100), NaN} =>
               (pre_post.pre_period_n >= 2 /\ pre_post.post_period_n >= 2)

(***************************************************************************)
(* Claims about calculate_cumulative_impact.                               *)
(***************************************************************************)
\* rows with event_date <= date <= event_date + window_months
PostRows ==
    LET last_month == to_period(event_date) + window_months
    IN SelectSeq(monthly_data,
                 LAMBDA r : /\ r.date.days >= event_date.days
                            /\ r.year_month <= last_month)

\* rows of the pre-window strictly before the event
BaselineRows ==
    LET first_month == to_period(event_date) - window_months
    IN SelectSeq(monthly_data,
                 LAMBDA r : /\ r.year_month >= first_month
                            /\ r.date.days < event_date.days)

RECURSIVE SumExcess(_, _)
SumExcess(points, k) ==
    IF k = 0 THEN Zero ELSE QAdd(SumExcess(points, k - 1), points[k].excess)

\* C9: one point per row with event_date <= date <= event_date +
\* window_months, ascending by date; excess = mission_count - baseline, the
\* baseline being the mean over the pre-window rows before the event (0.0
\* without any); cumulative_excess is the sum of the excess values up to the
\* point, so the last one is the sum of all excess values
C9_CumulativeRunningSum ==
    pc = "accumulated" =>
        LET rows == PostRows
            before == BaselineRows
            before_n == Max(Len(before), 1)
            before_sum == SumSeq(Counts(before))
            n == Len(cumulative_data)
        IN /\ n = Len(rows)
           /\ \A k \in 1..n :
                 LET pt == cumulative_data[k]
                     r == rows[k]
                 IN /\ pt.date = [y |-> r.year, m |-> r.month, d |-> 1]
                    /\ pt.mission_count = r.mission_count
                    /\ k > 1 => rows[k - 1].date.days < r.date.days
                    /\ pt.baseline.d > 0
                    /\ pt.baseline.n * before_n = pt.baseline.d * before_sum
                    /\ pt.excess.d > 0
                    /\ pt.excess.n * pt.baseline.d =
                           pt.excess.d *
                               (r.mission_count * pt.baseline.d - pt.baseline.n)
                    /\ pt.cumulative_excess =
                           IF k = 1 THEN pt.excess
                           ELSE QAdd(cumulative_data[k - 1].cumulative_excess,
                                     pt.excess)
           /\ n > 0 => cumulative_data[n].cumulative_excess =
                           SumExcess(cumulative_data, n)

C9_Witness ==
    /\ pc = "accumulated"
    /\ Len(cumulative_data) >= 2
    /\ Len(BaselineRows) = 2
    /\ cumulative_data[1].baseline = QInt(11)
    /\ cumulative_data[1].excess # cumulative_data[2].cumulative_excess
    /\ QLt(cumulative_data[2].cumulative_excess, Zero)

\* days from the event date to the date of a point
ElapsedDays(point) ==
    MonthStart((point.date.y - 2023) * 12 + point.date.m - 1) + point.date.d - 1
        - event_date.days

\* C17: for a non-empty window the cumulative points are the points of
\* post_period_data, in the same order and post_period_n of them, each with
\* the same date and mission count; every baseline is pre_period_mean; every
\* months_since_event is a non-negative integer, the floor of the elapsed
\* days over 30, and it never decreases along the sequence
C17_CumulativeAgreesWithPrePost ==
    (pc = "accumulated" /\ Windowed # {}) =>
        LET post == pre_post.post_period_data
            n == Len(cumulative_data)
        IN /\ n = pre_post.post_period_n
           /\ n = Len(post)
           /\ \A k \in 1..n :
                 LET pt == cumulative_data[k]
                 IN /\ pt.date = post[k].date
                    /\ pt.mission_count = post[k].mission_count
                    /\ pt.baseline = pre_post.pre_period_mean
                    /\ pt.months_since_event \in Nat
                    /\ ElapsedDays(pt) >= 0
                    /\ pt.months_since_event = ElapsedDays(pt) \div 30
                    /\ k > 1 => cumulative_data[k - 1].months_since_event
                                    <= pt.months_since_event

\* an event in the middle of a month, one row before it, two rows after it in
\* the window, the second more than 30 days later, and a row past the window
C17_Witness ==
    /\ pc = "accumulated"
    /\ Windowed # {}
    /\ Len(monthly_data) = 4
    /\ event_date = Ts(14)
    /\ pre_post.pre_period_n = 1
    /\ Len(cumulative_data) = 2
    /\ cumulative_data[1].months_since_event = 0
    /\ cumulative_data[2].months_since_event = 1
    /\ cumulative_data[2].baseline # Zero

(***************************************************************************)
(* stratify_by_weather_quantiles (weather_risk_2_4.py:181-232)             *)
(***************************************************************************)
\* lines 198-201: parse tdate, drop NaT rows, derive year and month
WithYearMonth(table) ==
    LET parsed == [i \in 1..Len(table) |->
                     [table[i] EXCEPT !.tdate = to_datetime(table[i].tdate)]]
        kept == SelectSeq(parsed, LAMBDA r : notna(r.tdate))
    IN [i \in 1..Len(kept) |->
          [tdate |-> kept[i].tdate,
           incident |-> kept[i].incident,
           year |-> YearOf(to_period(kept[i].tdate)),
           month |-> MonthOf(to_period(kept[i].tdate))]]

\* lines 209-210: year and month from the text of the period, "YYYY-MM"
FreqYearMonth(freq) ==
    [k \in 1..Len(freq) |->
        [year |-> YearOf(freq[k].period),
         month |-> MonthOf(freq[k].period),
         extreme_frequency |-> freq[k].extreme_frequency]]

\* lines 213-220: left merge on (year, month); an operational row without
\* weather month gets NaN, which fillna(0) replaces.  The periods of the
\* frequency table are distinct, so a row has at most one match.
MergedFrequency(row, freq) ==
    LET matches == SelectSeq(freq, LAMBDA f : f.year = row.year /\ f.month = row.month)
        merged == IF matches = <<>> THEN NaN ELSE matches[1].extreme_frequency
    IN IF IsNaN(merged) THEN Zero ELSE merged

MergeWeather(table, freq) ==
    [i \in 1..Len(table) |->
        [tdate |-> table[i].tdate,
         incident |-> table[i].incident,
         year |-> table[i].year,
         month |-> table[i].month,
         extreme_frequency |-> MergedFrequency(table[i], freq)]]

RECURSIVE InsertAscending(_, _)
InsertAscending(sorted, x) ==
    IF sorted = <<>> THEN <<x>>
    ELSE IF QLt(x, Head(sorted)) THEN <<x>> \o sorted
    ELSE <<Head(sorted)>> \o InsertAscending(Tail(sorted), x)

RECURSIVE SortAscending(_)
SortAscending(xs) ==
    IF xs = <<>> THEN <<>>
    ELSE InsertAscending(SortAscending(Tail(xs)), Head(xs))

\* floor of a rational that is >= 0
Floor(x) == x.n \div x.d

\* Series.quantile(q), linear interpolation between the two closest ranks;
\* NaN for an empty series
Quantile(xs, q) ==
    IF xs = <<>> THEN NaN
    ELSE LET sorted == SortAscending(xs)
             pos == QMul(q, QInt(Len(xs) - 1))
             lo == Floor(pos)
             frac == QSub(pos, QInt(lo))
         IN IF frac = Zero THEN sorted[lo + 1]
            ELSE QAdd(sorted[lo + 1],
                      QMul(frac, QSub(sorted[lo + 2], sorted[lo + 1])))

\* line 221
QuantileValues(xs, qs) == [i \in 1..Len(qs) |-> Quantile(xs, qs[i])]

\* f"{x:.1f}": the number rounded to one decimal, in tenths
Format1(x) == IF IsNaN(x) THEN NaN ELSE QInt((2 * 10 * x.n + x.d) \div (2 * x.d))

\* lines 224-228, with range(len(quantile_values) - 1) as the indices from i
\* on; an index here is one more than Python's.  The label is the text
\* "Q<q> (<from>-<to>%)", or "Q<q> (<from>%+)" for the open-ended one.
RECURSIVE AssignFrom(_, _, _)
AssignFrom(value, quantile_values, i) ==
    IF i > Len(quantile_values) - 1
    THEN [q |-> Len(quantile_values),
          from |-> Format1(quantile_values[Len(quantile_values)]),
          to |-> [open |-> TRUE]]
    ELSE IF QLe(quantile_values[i], value) /\ QLt(value, quantile_values[i + 1])
    THEN [q |-> i,
          from |-> Format1(quantile_values[i]),
          to |-> Format1(quantile_values[i + 1])]
    ELSE AssignFrom(value, quantile_values, i + 1)

assign_quantile(value, quantile_values) == AssignFrom(value, quantile_values, 1)

stratify_by_weather_quantiles(table, freq, qs) ==
    LET merged == MergeWeather(WithYearMonth(table), FreqYearMonth(freq))
        quantile_values ==
            QuantileValues([i \in 1..Len(merged) |-> merged[i].extreme_frequency], qs)
    IN [i \in 1..Len(merged) |->
          [tdate |-> merged[i].tdate,
           incident |-> merged[i].incident,
           year |-> merged[i].year,
           month |-> merged[i].month,
           extreme_frequency |-> merged[i].extreme_frequency,
           weather_quantile |->
               assign_quantile(merged[i].extreme_frequency, quantile_values)]]

(***************************************************************************)
(* Specification of the weather stratifier.  The initial states draw the   *)
(* operational table, the quantile thresholds and the monthly frequency    *)
(* table that lines 204-206 compute from the weather file: one row per     *)
(* month of the file, with the share of its records flagged extreme.       *)
(***************************************************************************)
MaxOps == 3          \* rows of the operational table
MaxWeatherIx == 1    \* the weather file covers months 0..MaxWeatherIx

Frequencies == {Zero, QInt(50), QInt(100)}

FrequencyTables ==
    {[k \in 1..(MaxWeatherIx + 1) |->
        [period |-> k - 1, extreme_frequency |-> f[k - 1]]] :
        f \in [0..MaxWeatherIx -> Frequencies]}

\* the 1st of each month of the weather file and of the month after it, and
\* a text that is no date
OpsDates ==
    {[y |-> YearOf(p), m |-> MonthOf(p), d |-> 1] : p \in 0..(MaxWeatherIx + 1)}
        \cup {[y |-> 2023, m |-> 2, d |-> 30]}

OpsTables ==
    {[i \in 1..Len(s) |-> [tdate |-> s[i], incident |-> ToString(i)]] :
        s \in SeqsUpTo(OpsDates, MaxOps)}

QuantileLists ==
    {<<Zero, Q(1, 4), Q(1, 2), Q(3, 4), QInt(1)>>,
     <<Zero, Q(1, 2), QInt(1)>>,
     <<Q(1, 2), QInt(1)>>}

InitStrat ==
    /\ pc = "input"
    /\ merged_df \in OpsTables
    /\ weather_freq \in FrequencyTables
    /\ quantiles \in QuantileLists
    /\ stratified = NotRun
    /\ IdleAgg /\ IdleEvents /\ IdleImpact
    /\ IdleWeather /\ IdleDist /\ IdleAnalysis

StratifyByWeatherQuantiles ==
    /\ pc = "input"
    /\ stratified' = stratify_by_weather_quantiles(merged_df, weather_freq, quantiles)
    /\ pc' = "stratified"
    /\ UNCHANGED <<merged_df, weather_freq, quantiles, aggVars, evVars, impVars,
                   wxVars, distVars, anVars>>

NextStrat == StratifyByWeatherQuantiles

SpecStrat == InitStrat /\ [][NextStrat]_vars

(***************************************************************************)
(* Claims about stratify_by_weather_quantiles.                             *)
(***************************************************************************)
\* the operational rows with a parseable timestamp, in order
DatedOps ==
    SelectSeq(merged_df,
              LAMBDA r : /\ r.tdate.m \in 1..12
                         /\ r.tdate.d \in 1..DaysInMonth(r.tdate.y, r.tdate.m))

\* the frequency of the row's month in the weather table, 0 without one
FrequencyOf(r) ==
    IF \E k \in 1..Len(weather_freq) :
           /\ YearOf(weather_freq[k].period) = r.tdate.y
           /\ MonthOf(weather_freq[k].period) = r.tdate.m
    THEN (CHOOSE f \in Range(weather_freq) :
              /\ YearOf(f.period) = r.tdate.y
              /\ MonthOf(f.period) = r.tdate.m).extreme_frequency
    ELSE Zero

\* C10: every row (a row without weather month counts with frequency 0) gets
\* exactly one bucket label, and rows with different labels never fall in
\* overlapping value ranges: no value of another bucket lies between two
\* values of a bucket
C10_BucketsPartitionValues ==
    pc = "stratified" =>
        /\ Len(stratified) = Len(DatedOps)
        /\ \A i \in 1..Len(stratified) :
              /\ stratified[i].incident = DatedOps[i].incident
              /\ stratified[i].extreme_frequency = FrequencyOf(DatedOps[i])
              /\ stratified[i].weather_quantile.q \in 1..Len(quantiles)
        /\ \A a, b, c \in 1..Len(stratified) :
              (/\ stratified[a].weather_quantile = stratified[c].weather_quantile
               /\ QLe(stratified[a].extreme_frequency, stratified[b].extreme_frequency)
               /\ QLe(stratified[b].extreme_frequency, stratified[c].extreme_frequency))
                  => stratified[b].weather_quantile = stratified[a].weather_quantile

\* the cut points of a stratified table: the quantiles of its frequency column
CutPoints ==
    QuantileValues([i \in 1..Len(stratified) |-> stratified[i].extreme_frequency],
                   quantiles)

\* two operational rows, one in a month of frequency 0% and one in a month of
\* frequency 100%, stratified with the cuts [0, 0.5, 1.0]
TwoPeriodScenario ==
    /\ pc = "stratified"
    /\ quantiles = <<Zero, Q(1, 2), QInt(1)>>
    /\ Len(stratified) = 2
    /\ stratified[1].extreme_frequency = Zero
    /\ stratified[2].extreme_frequency = QInt(100)

\* C11: with n cut points there are n-1 buckets; a row whose frequency lies
\* within the cut points is in bucket i < n-1 exactly when
\* cut[i] <= frequency < cut[i+1] and in the last bucket n-1 exactly when
\* cut[n-1] <= frequency <= cut[n], so the frequency equal to the final cut
\* shares the last bucket, whose label is open-ended from cut[n-1]; in the
\* two-period scenario the labels are "0.0-50.0%" and "50.0%+"
C11_LastBucketClosed ==
    pc = "stratified" =>
        LET cut == CutPoints
            n == Len(quantiles)
        IN /\ \A i \in 1..Len(stratified) :
                 LET v == stratified[i].extreme_frequency
                     label == stratified[i].weather_quantile
                 IN (QLe(cut[1], v) /\ QLe(v, cut[n])) =>
                       /\ label.q \in 1..(n - 1)
                       /\ QLe(cut[label.q], v)
                       /\ IF label.q < n - 1
                          THEN /\ QLt(v, cut[label.q + 1])
                               /\ label.from = Format1(cut[label.q])
                               /\ label.to = Format1(cut[label.q + 1])
                          ELSE /\ QLe(v, cut[n])
                               /\ label.from = Format1(cut[n - 1])
                               /\ label.to = [open |-> TRUE]
           /\ TwoPeriodScenario =>
                 /\ stratified[1].weather_quantile =
                        [q |-> 1, from |-> QInt(0), to |-> QInt(500)]
                 /\ stratified[2].weather_quantile =
                        [q |-> 2, from |-> QInt(500), to |-> [open |-> TRUE]]

(***************************************************************************)
(* define_extreme_weather_days (weather_risk_2_4.py:79-122).  A weather    *)
(* table is the sequence of its rows together with the set of its columns: *)
(* reading a column the table does not have raises KeyError.               *)
(***************************************************************************)
Flagged(extreme_weather) == [raised |-> "", extreme_weather |-> extreme_weather]
FlagRaised(error) == [raised |-> error, extreme_weather |-> <<>>]

\* df[name]
Column(table, name) == [i \in 1..Len(table) |-> table[i][name]]

\* Series.quantile(q) leaves the missing values out
SeriesQuantile(xs, q) == Quantile(SelectSeq(xs, LAMBDA x : ~IsNaN(x)), q)

\* slip: >= precip_threshold
AboveThreshold_OrEqual(value, threshold) == QLe(threshold, value)

\* lines 98, 119: df['Precip'] > precip_threshold
AboveThreshold(value, threshold) == QGt(value, threshold)

\* lines 97-98, 111, 119, for a table with the column Precip
ExtremePrecip(table) ==
    LET precip_threshold == SeriesQuantile(Column(table, "Precip"), Q(95, 100))
    IN [i \in 1..Len(table) |-> AboveThreshold(table[i].Precip, precip_threshold)]

\* lines 103-105, 113-115, for a table with the column AvgTemp
ExtremeTemp(table) ==
    LET temp_95th == SeriesQuantile(Column(table, "AvgTemp"), Q(95, 100))
        temp_5th == SeriesQuantile(Column(table, "AvgTemp"), Q(5, 100))
    IN [i \in 1..Len(table) |->
          QGt(table[i].AvgTemp, temp_95th) \/ QLt(table[i].AvgTemp, temp_5th)]

\* Series.astype(int) of a boolean series
astype_int(flags) == [i \in 1..Len(flags) |-> IF flags[i] THEN 1 ELSE 0]

\* Line 98 reads df['Precip'] whether or not line 97 found the column.  In
\* the combined method a missing column leaves the Python value False for
\* its rule: False | series is the series, and with both columns missing
\* line 120 calls astype on the bool False | False.
define_extreme_weather_days(table, columns, m) ==
    CASE m = "precipitation" ->
             IF "Precip" \in columns
             THEN Flagged(astype_int(ExtremePrecip(table)))
             ELSE FlagRaised("KeyError")
      [] m = "temperature" ->
             IF "AvgTemp" \in columns
             THEN Flagged(astype_int(ExtremeTemp(table)))
             ELSE Flagged([i \in 1..Len(table) |-> 0])
      [] m = "combined" ->
             IF "Precip" \in columns /\ "AvgTemp" \in columns
             THEN Flagged(astype_int(
                      [i \in 1..Len(table) |->
                          ExtremePrecip(table)[i] \/ ExtremeTemp(table)[i]]))
             ELSE IF "AvgTemp" \in columns
             THEN Flagged(astype_int(ExtremeTemp(table)))
             ELSE IF "Precip" \in columns
             THEN Flagged(astype_int(ExtremePrecip(table)))
             ELSE FlagRaised("AttributeError")

(***************************************************************************)
(* Specification of the extreme-weather flag: the initial states draw the  *)
(* weather table, its columns and the method.                              *)
(***************************************************************************)
MaxWeatherRows == 3    \* rows of the weather table

PrecipValues == {Zero, QInt(5), NaN}
TempValues == {QInt(10), QInt(30)}

\* a row holds NaN under a column the table does not have
WeatherTables(columns) ==
    SeqsUpTo([Precip : IF "Precip" \in columns THEN PrecipValues ELSE {NaN},
              AvgTemp : IF "AvgTemp" \in columns THEN TempValues ELSE {NaN}],
             MaxWeatherRows)

Methods == {"precipitation", "temperature", "combined"}

InitWeather ==
    /\ pc = "input"
    /\ weather_columns \in SUBSET {"Precip", "AvgTemp"}
    /\ weather_df \in WeatherTables(weather_columns)
    /\ method \in Methods
    /\ flagged = NotRun
    /\ IdleAgg /\ IdleEvents /\ IdleImpact /\ IdleStrat
    /\ IdleDist /\ IdleAnalysis

DefineExtremeWeatherDays ==
    /\ pc = "input"
    /\ flagged' = define_extreme_weather_days(weather_df, weather_columns, method)
    /\ pc' = "flagged"
    /\ UNCHANGED <<weather_df, weather_columns, method, aggVars, evVars,
                   impVars, strVars, distVars, anVars>>

NextWeather == DefineExtremeWeatherDays

SpecWeather == InitWeather /\ [][NextWeather]_vars

(***************************************************************************)
(* Claims about define_extreme_weather_days.                               *)
(***************************************************************************)
AllZero(flags) ==
    /\ Len(flags) = Len(weather_df)
    /\ \A i \in 1..Len(flags) : flags[i] = 0

\* C12: for each of the three methods the function returns when Precip or
\* AvgTemp is missing; the rule of a missing column flags no row, so the
\* method of a missing column gives 0 on every row, the combined method
\* with one column missing gives the flags of the other column's rule, and
\* with both columns missing every row has extreme_weather = 0
C12_MissingColumnsNeverRaise ==
    (pc = "flagged" /\ weather_columns # {"Precip", "AvgTemp"}) =>
        /\ flagged.raised = ""
        /\ "Precip" \notin weather_columns =>
              IF method = "precipitation" \/ "AvgTemp" \notin weather_columns
              THEN AllZero(flagged.extreme_weather)
              ELSE flagged.extreme_weather = astype_int(ExtremeTemp(weather_df))
        /\ "AvgTemp" \notin weather_columns =>
              IF method = "temperature" \/ "Precip" \notin weather_columns
              THEN AllZero(flagged.extreme_weather)
              ELSE flagged.extreme_weather = astype_int(ExtremePrecip(weather_df))

\* the precipitation values that are present
PresentPrecip == {weather_df[i].Precip : i \in 1..Len(weather_df)} \ {NaN}

\* C13: with method 'precipitation' a row is flagged exactly when its
\* precipitation is strictly greater than the 95th percentile of the
\* precipitation column; when all precipitation values are equal no row is
\* flagged
C13_FlaggedIffAbove95thPercentile ==
    (/\ pc = "flagged" /\ method = "precipitation"
     /\ "Precip" \in weather_columns) =>
        LET p95 == SeriesQuantile(Column(weather_df, "Precip"), Q(95, 100))
            flags == flagged.extreme_weather
        IN /\ flagged.raised = ""
           /\ Len(flags) = Len(weather_df)
           /\ \A i \in 1..Len(flags) :
                 /\ flags[i] \in {0, 1}
                 /\ flags[i] = 1 <=>
                        (/\ ~IsNaN(weather_df[i].Precip) /\ ~IsNaN(p95)
                         /\ weather_df[i].Precip.n * p95.d
                                > p95.n * weather_df[i].Precip.d)
           /\ Cardinality(PresentPrecip) <= 1 =>
                 \A i \in 1..Len(flags) : flags[i] = 0

\* two dry rows and a wet one: the percentile 4.5 lies between them and only
\* the wet row is flagged
C13_Witness ==
    /\ pc = "flagged" /\ method = "precipitation"
    /\ "Precip" \in weather_columns
    /\ Column(weather_df, "Precip") = <<Zero, Zero, QInt(5)>>
    /\ SeriesQuantile(Column(weather_df, "Precip"), Q(95, 100)) = Q(9, 2)
    /\ flagged.extreme_weather = <<0, 0, 1>>

(***************************************************************************)
(* calculate_mission_distribution_by_weather (weather_risk_2_4.py:235-289) *)
(* and get_weather_risk_analysis (292-340)                                 *)
(***************************************************************************)
\* the period column of lines 256-261 as a number: the day, the month, or
\* the week ending on Sunday that to_period('W') gives (2023-01-01 is a
\* Sunday)
PeriodOf(level, t) ==
    CASE level = "day" -> t.days
      [] level = "month" -> to_period(t)
      [] level = "week" -> (t.days + 6) \div 7

\* lines 252-261
WithPeriod(table, level) ==
    LET parsed == [i \in 1..Len(table) |->
                     [table[i] EXCEPT !.tdate = to_datetime(table[i].tdate)]]
        kept == SelectSeq(parsed, LAMBDA r : notna(r.tdate))
    IN [i \in 1..Len(kept) |->
          [period |-> PeriodOf(level, kept[i].tdate),
           weather_quantile |-> kept[i].weather_quantile,
           incident |-> kept[i].incident]]

\* lines 266-269 and 274: the mission counts of the groups of one label, in
\* the order of their periods; 'count' counts the incident numbers present
QuantileData(table, quantile) ==
    LET periods == SortedSeqOf({table[i].period : i \in
                       {j \in 1..Len(table) : table[j].weather_quantile = quantile}})
    IN [k \in 1..Len(periods) |->
          Cardinality({i \in 1..Len(table) :
                          /\ table[i].period = periods[k]
                          /\ table[i].weather_quantile = quantile
                          /\ table[i].incident # NULL})]

\* np.percentile(values, q): linear interpolation, as Series.quantile
percentile(values, q) ==
    Quantile([i \in 1..Len(values) |-> QInt(values[i])], Q(q, 100))

\* np.std: the population standard deviation
PopulationStd(values) ==
    Sqrt(Q(Len(values) * SumSquares(values) - SumSeq(values) * SumSeq(values),
           Len(values) * Len(values)))

\* lines 277-287
BoxplotStats(values) ==
    LET sorted == SortedSeqOf(Range(values))
    IN [values |-> values,
        min |-> QInt(sorted[1]),
        q1 |-> percentile(values, 25),
        median |-> percentile(values, 50),
        q3 |-> percentile(values, 75),
        max |-> QInt(sorted[Len(sorted)]),
        mean |-> Mean(values),
        std |-> PopulationStd(values),
        count |-> Len(values)]

\* The outcome of calculate_mission_distribution_by_weather: the dictionary
\* as a function from the labels of the grouped table to their statistics.
calculate_mission_distribution_by_weather(table, level) ==
    IF level \notin {"day", "month", "week"}
    THEN [raised |-> "ValueError", boxplot_data |-> <<>>]
    ELSE LET periodic == WithPeriod(table, level)
             present == {periodic[i].weather_quantile : i \in 1..Len(periodic)}
         IN [raised |-> "",
             boxplot_data |->
                 [quantile \in {l \in present :
                                    Len(QuantileData(periodic, l)) > 0} |->
                     BoxplotStats(QuantileData(periodic, quantile))]]

\* sorted(boxplot_data.items()): the labels of one stratified table differ
\* in their bucket number, which leads the label text
RECURSIVE SortedLabels(_)
SortedLabels(S) ==
    IF S = {} THEN <<>>
    ELSE LET first == CHOOSE l \in S : \A other \in S : l.q <= other.q
         IN <<first>> \o SortedLabels(S \ {first})

\* slip: a value on a fence counts as an outlier
IsOutlier_OrOnFence(v, q1, q3) ==
    LET fence == QMul(Q(3, 2), QSub(q3, q1))
    IN QLe(QInt(v), QSub(q1, fence)) \/ QLe(QAdd(q3, fence), QInt(v))

\* line 329
IsOutlier(v, q1, q3) ==
    LET fence == QMul(Q(3, 2), QSub(q3, q1))
    IN QLt(QInt(v), QSub(q1, fence)) \/ QGt(QInt(v), QAdd(q3, fence))

\* lines 319-330
BoxplotSeries(boxplot_data) ==
    LET labels == SortedLabels(DOMAIN boxplot_data)
    IN [k \in 1..Len(labels) |->
          LET stats == boxplot_data[labels[k]]
          IN [quantile |-> labels[k],
              min |-> stats.min,
              q1 |-> stats.q1,
              median |-> stats.median,
              q3 |-> stats.q3,
              max |-> stats.max,
              mean |-> stats.mean,
              outliers |-> SelectSeq(stats.values,
                               LAMBDA v : IsOutlier(v, stats.q1, stats.q3))]]

\* lines 316-340, on the table that lines 312-313 load and stratify
get_weather_risk_analysis(ops_df, level) ==
    LET distribution == calculate_mission_distribution_by_weather(ops_df, level)
    IN IF distribution.raised # ""
       THEN [raised |-> distribution.raised, boxplot_data |-> <<>>, n_quantiles |-> 0]
       ELSE LET boxplot_series == BoxplotSeries(distribution.boxplot_data)
            IN [raised |-> "",
                boxplot_data |-> boxplot_series,
                n_quantiles |-> Len(boxplot_series)]

(***************************************************************************)
(* Specification of the weather-risk analysis.  The initial states draw    *)
(* the stratified operational table: the rows of a month carry the label   *)
(* of the month's frequency, here the labels of the cuts [0, 50, 100].     *)
(***************************************************************************)
MaxPerDay == 3    \* operational rows of one day

LowLabel == [q |-> 1, from |-> QInt(0), to |-> QInt(500)]
MidLabel == [q |-> 2, from |-> QInt(500), to |-> QInt(1000)]
HighLabel == [q |-> 3, from |-> QInt(1000), to |-> [open |-> TRUE]]

\* four days of January 2023 in three weeks, and a day of February
LabelledDays ==
    <<[tdate |-> [y |-> 2023, m |-> 1, d |-> 1], weather_quantile |-> LowLabel],
      [tdate |-> [y |-> 2023, m |-> 1, d |-> 2], weather_quantile |-> LowLabel],
      [tdate |-> [y |-> 2023, m |-> 1, d |-> 9], weather_quantile |-> LowLabel],
      [tdate |-> [y |-> 2023, m |-> 1, d |-> 10], weather_quantile |-> LowLabel],
      [tdate |-> [y |-> 2023, m |-> 2, d |-> 1], weather_quantile |-> HighLabel]>>

\* count[k] rows of the k-th day, from day k on
RECURSIVE RowsOfDays(_, _)
RowsOfDays(count, k) ==
    IF k > Len(LabelledDays) THEN <<>>
    ELSE [i \in 1..count[k] |->
             [tdate |-> LabelledDays[k].tdate,
              weather_quantile |-> LabelledDays[k].weather_quantile,
              incident |-> "INC"]]
         \o RowsOfDays(count, k + 1)

\* a row whose timestamp is no date, in a bucket of its own, and a row
\* without incident number
ExtraRows ==
    {<<>>,
     <<[tdate |-> [y |-> 2023, m |-> 2, d |-> 30], weather_quantile |-> MidLabel,
        incident |-> "INC"]>>,
     <<[tdate |-> [y |-> 2023, m |-> 2, d |-> 1], weather_quantile |-> HighLabel,
        incident |-> NULL]>>}

LabelledTables ==
    {RowsOfDays(count, 1) \o extra :
        count \in [1..Len(LabelledDays) -> 0..MaxPerDay], extra \in ExtraRows}

AggregationLevels == {"day", "week", "month", "quarter"}

InitDist ==
    /\ pc = "input"
    /\ labelled_df \in LabelledTables
    /\ aggregation_level \in AggregationLevels
    /\ risk_analysis = NotRun
    /\ IdleAgg /\ IdleEvents /\ IdleImpact /\ IdleStrat
    /\ IdleWeather /\ IdleAnalysis

GetWeatherRiskAnalysis ==
    /\ pc = "input"
    /\ risk_analysis' = get_weather_risk_analysis(labelled_df, aggregation_level)
    /\ pc' = "analysed"
    /\ UNCHANGED <<labelled_df, aggregation_level, aggVars, evVars, impVars,
                   strVars, wxVars, anVars>>

NextDist == GetWeatherRiskAnalysis

SpecDist == InitDist /\ [][NextDist]_vars

(***************************************************************************)
(* Claims about the weather-risk analysis.                                 *)
(***************************************************************************)
\* the rows of a bucket whose timestamp is a date
BucketRows(label) ==
    {i \in 1..Len(labelled_df) :
        /\ labelled_df[i].weather_quantile = label
        /\ labelled_df[i].tdate.d \in
               1..DaysInMonth(labelled_df[i].tdate.y, labelled_df[i].tdate.m)}

PeriodOfRow(i) == PeriodOf(aggregation_level, to_datetime(labelled_df[i].tdate))

\* the mission counts of the periods of a bucket, by ascending period
BucketCounts(label) ==
    LET periods == SortedSeqOf({PeriodOfRow(i) : i \in BucketRows(label)})
    IN [k \in 1..Len(periods) |->
          Cardinality({i \in BucketRows(label) :
                          /\ PeriodOfRow(i) = periods[k]
                          /\ labelled_df[i].incident # NULL})]

\* C14: the buckets reported are exactly the labels that have a period, each
\* once; q1 and q3 of a bucket are the 25th and 75th percentiles of its
\* per-period mission counts, and its outliers are exactly the counts v with
\* v < q1 - 1.5 (q3 - q1) or v > q3 + 1.5 (q3 - q1), in the order of the
\* periods
C14_OutliersOutsideTukeyFences ==
    (pc = "analysed" /\ risk_analysis.raised = "") =>
        LET series == risk_analysis.boxplot_data
        IN /\ {series[k].quantile : k \in 1..Len(series)} =
                  {l \in {LowLabel, MidLabel, HighLabel} : BucketRows(l) # {}}
           /\ \A j, k \in 1..Len(series) :
                 series[j].quantile = series[k].quantile => j = k
           /\ \A k \in 1..Len(series) :
                 LET counts == BucketCounts(series[k].quantile)
                     q1 == series[k].q1
                     q3 == series[k].q3
                 IN /\ Len(counts) > 0
                    /\ q1 = percentile(counts, 25)
                    /\ q3 = percentile(counts, 75)
                    /\ series[k].outliers =
                           SelectSeq(counts,
                               LAMBDA v :
                                   \/ 2 * v * q1.d * q3.d
                                          < 5 * q1.n * q3.d - 3 * q3.n * q1.d
                                   \/ 2 * v * q1.d * q3.d
                                          > 5 * q3.n * q1.d - 3 * q1.n * q3.d)

\* by day: the January bucket has the counts 1, 1, 1, 3 with q1 = 1 and
\* q3 = 1.5, so 3 is its only outlier; the February bucket has one period
\* and the bucket of the undated row is not reported
C14_Witness ==
    /\ pc = "analysed"
    /\ aggregation_level = "day"
    /\ \E i \in 1..Len(labelled_df) : labelled_df[i].weather_quantile = MidLabel
    /\ Len(risk_analysis.boxplot_data) = 2
    /\ risk_analysis.boxplot_data[1].q3 = Q(3, 2)
    /\ risk_analysis.boxplot_data[1].outliers = <<3>>
    /\ risk_analysis.boxplot_data[2].outliers = <<>>

(***************************************************************************)
(* get_event_impact_analysis (event_impact_1_4.py:287-380)                 *)
(***************************************************************************)
AnalysisRaised(error) == [raised |-> error]

\* lines 323-330: the filter dictionary, None as the empty one; a location
\* value of None or '' is false
LocationFilterOf(level, value, event_row) ==
    IF level = "county" /\ value # NULL THEN [k \in {"county"} |-> value]
    ELSE IF level = "city" /\ value # NULL THEN [k \in {"city"} |-> value]
    ELSE IF level = "county" THEN [k \in {"county"} |-> event_row.county]
    ELSE NoFilter

\* lines 342-360
TimelineData(pre_post_comparison) ==
    LET items == pre_post_comparison.pre_period_data
                     \o pre_post_comparison.post_period_data
    IN [k \in 1..Len(items) |->
          [date |-> items[k].date,
           mission_count |-> items[k].mission_count,
           period |-> items[k].period,
           baseline |-> pre_post_comparison.pre_period_mean]]

\* lines 314-380, for the first catalog row with the identifier.  The
\* county of the event is missing when the file has none: as a filter value
\* it is a float, and line 96 of aggregate_monthly_data calls upper() on it.
AnalysisOfEvent(event_row, id, level, value, w, table, scipy) ==
    LET ev == Ts(MonthStart((event_row.closure_year - 2023) * 12
                                + event_row.closure_month - 1))
        filter == LocationFilterOf(level, value, event_row)
        monthly == aggregate_monthly_data(table, filter)
        comparison == calculate_pre_post_comparison(monthly, ev, w, scipy)
    IN IF "county" \in DOMAIN filter /\ filter["county"] = NULL
       THEN AnalysisRaised("AttributeError")
       ELSE [raised |-> "",
             event_info |->
                 [event_id |-> id,
                  hospital_name |-> event_row.hospital_name,
                  county |-> event_row.county,
                  facility_type |-> event_row.facility_type,
                  closure_year |-> event_row.closure_year,
                  closure_month |-> event_row.closure_month,
                  reason |-> event_row.reason],
             pre_post_comparison |-> comparison,
             cumulative_impact |-> calculate_cumulative_impact(monthly, ev, w),
             timeline_data |-> TimelineData(comparison),
             metadata |->
                 [location_level |-> level,
                  location_value |-> IF value # NULL THEN value
                                     ELSE event_row.county,
                  window_months |-> w]]

\* Lines 308-312 on an outcome of get_hospital_closure_events: an exception
\* of the loader propagates; events_df['event_id'] on the table without
\* columns that the loader returns for a missing file raises KeyError.
get_event_impact_analysis(events_df, id, level, value, w, table, scipy) ==
    IF events_df.raised # "" THEN AnalysisRaised(events_df.raised)
    ELSE IF "event_id" \notin events_df.columns THEN AnalysisRaised("KeyError")
    ELSE LET event == SelectSeq(events_df.rows, LAMBDA r : r.event_id = id)
         IN IF Len(event) = 0 THEN AnalysisRaised("Event not found")
            ELSE AnalysisOfEvent(event[1], id, level, value, w, table, scipy)

(***************************************************************************)
(* Specification of the event-impact analysis as a whole: the initial     *)
(* states draw the closures file, the arguments and the operational table  *)
(* that read_data() returns.                                               *)
(***************************************************************************)
MaxCatalog == 1    \* rows of the closures file

CatalogRows ==
    [hospital_name : {"Calais Regional"},
     county : {"Aroostook", NULL},
     facility_type : {"Hospital"},
     closure_year : {QInt(2023), NaN},
     closure_date : {NaT, [parts |-> <<2023, 2, 15>>]},
     status : {"Closed", "Open"},
     reason : {"Financial"}]

CatalogFiles ==
    {NoClosures} \cup
    {[exists |-> TRUE, rows |-> r] : r \in SeqsUpTo(CatalogRows, MaxCatalog)}

\* the identifiers of the two events a catalog can hold, and one of no event
EventIds ==
    {<<"Calais Regional", " (", "Aroostook", ", ", 2023, ")">>,
     <<"Calais Regional", " (", NULL, ", ", 2023, ")">>,
     <<"Houlton Regional", " (", "Aroostook", ", ", 2023, ")">>}

ReadDataTables ==
    {<<>>,
     <<[tdate |-> [y |-> 2023, m |-> 1, d |-> 1], county |-> "Aroostook",
        city |-> "Caribou", incident |-> "1"],
       [tdate |-> [y |-> 2023, m |-> 2, d |-> 1], county |-> "aroostook",
        city |-> "Bangor", incident |-> "2"],
       [tdate |-> [y |-> 2023, m |-> 3, d |-> 30], county |-> "Penobscot",
        city |-> NULL, incident |-> "3"]>>}

InitAnalysis ==
    /\ pc = "input"
    /\ closures \in CatalogFiles
    /\ event_id \in EventIds
    /\ location_level \in {"county", "city", "system"}
    /\ location_value \in {NULL, "AROOSTOOK"}
    /\ window_months \in 1..MaxWindow
    /\ SCIPY_AVAILABLE \in BOOLEAN
    /\ df \in ReadDataTables
    /\ impact_analysis = NotRun
    /\ location_filter = NoFilter /\ monthly_agg = NotRun
    /\ events = NotRun /\ events_list = NotRun
    /\ monthly_data = <<>> /\ event_date = Ts(0)
    /\ pre_post = NotRun /\ cumulative_data = NotRun
    /\ IdleStrat /\ IdleWeather /\ IdleDist

GetEventImpactAnalysis ==
    /\ pc = "input"
    /\ \E events_df \in HospitalClosureEvents(closures) :
          impact_analysis' =
              get_event_impact_analysis(events_df, event_id, location_level,
                                        location_value, window_months, df,
                                        SCIPY_AVAILABLE)
    /\ pc' = "analysed"
    /\ UNCHANGED <<event_id, location_level, location_value, aggVars, evVars,
                   impVars, strVars, wxVars, distVars>>

NextAnalysis == GetEventImpactAnalysis

SpecAnalysis == InitAnalysis /\ [][NextAnalysis]_vars

(***************************************************************************)
(* Claims about get_event_impact_analysis.                                 *)
(***************************************************************************)
\* the identifiers of the events of the catalog; none without the file
CatalogIds ==
    IF closures.exists
    THEN {ValidEvents(closures.rows)[k].event_id :
              k \in 1..Len(ValidEvents(closures.rows))}
    ELSE {}

\* C15: whatever the catalog, the empty one of a missing closures file
\* included, the analysis of an event_id that is no identifier of a catalog
\* event ends with the error 'Event not found' and with no other error or
\* result
C15_UnknownEventNotFound ==
    (pc = "analysed" /\ event_id \notin CatalogIds)
        => impact_analysis.raised = "Event not found"

====
